---- MODULE Spec2Model ----
(***************************************************************************)
(* Model of the Zepto search scraper (src/index.js): the scroll-to-        *)
(* stability loop (autoScroll), the retry shell of requestHandler and the  *)
(* per-card field extractor, together with the field extractor of the      *)
(* second script bundled in the same file ("index copy.js").               *)
(*                                                                         *)
(* An optional JavaScript value (null / undefined or a value) is a         *)
(* sequence of length at most one: << >> is null, <<v>> is the value v.    *)
(***************************************************************************)
EXTENDS Integers, Sequences, FiniteSets, TLC

\* ------------------------------------------------------------ bounds
\* Largest number of product links the page can show.
MaxLinks == 7
\* Largest maxScrolls handed to autoScroll when it is run on its own.
MaxScrolls == 4
\* Largest scrollCount input of a handler run.
HandlerScrolls == 2
\* A small maxProductsPerSearch input, next to the default.
SmallMaxProducts == 3
\* Largest price on a card, spans per card, name elements per card.
MaxPrice == 3
MaxSpans == 2
MaxNameEls == 1

\* ------------------------------------------------------------ program constants
MAX_RETRIES == 3
MIN_PRODUCTS == 5
MAX_NO_CHANGE == 3
DefaultMaxProducts == 100

\* ------------------------------------------------------------ optional values
None == << >>
Some(v) == <<v>>

\* JavaScript truthiness of an optional number / an optional string.
TruthyNum(o) == o # None /\ o[1] # 0
TruthyStr(o) == o # None /\ o[1] # ""

\* a || b for optional strings; the result is null when neither is truthy
\* and the chain ends in "|| null".
OrElse(a, b) == IF TruthyStr(a) THEN a ELSE b
OrNull(a) == IF TruthyStr(a) THEN a ELSE None

Min(a, b) == IF a <= b THEN a ELSE b

VARIABLES
    \* requestHandler
    pc, attemptNumber, products, reloads, attemptLog, sink, pushCalls, outcome,
    \* input configuration
    cfgScrollCount, maxProductsPerSearch,
    \* the page
    domLinks,
    \* autoScroll
    caller, maxScrolls, scrollCount, previousProductCount, noChangeCount,
    reads, bottomScrolls, topScrolls, warnings,
    \* the field extractor run on one card
    exPc, exInput, exOut,
    \* setPincode
    isFirst, locationSet, pinSteps,
    \* the page has crashed: every later call on it fails
    pageCrashed,
    \* waitForSearchResults
    waitAttempt, waitLog, waitResult,
    \* the crawler run
    requests, running, pincodeRuns, maxRequestRetries,
    \* handler invocations on separate pages
    inv, dataset, failedUrls, failing, events

handlerVars == <<attemptNumber, products, reloads, attemptLog, sink, pushCalls, outcome>>
configVars == <<cfgScrollCount, maxProductsPerSearch>>
scrollVars == <<caller, maxScrolls, scrollCount, previousProductCount, noChangeCount,
                reads, bottomScrolls, topScrolls, warnings>>
extractVars == <<exPc, exInput, exOut>>
pincodeVars == <<isFirst, locationSet, pinSteps>>
waitVars == <<waitAttempt, waitLog, waitResult>>
crawlerVars == <<requests, running, pincodeRuns, maxRequestRetries>>
failedVars == <<failedUrls, failing>>
concurrentVars == <<inv, dataset, failedVars>>
otherAux == <<pincodeVars, pageCrashed, waitVars, crawlerVars, concurrentVars>>
auxVars == <<otherAux, events>>
vars == <<pc, handlerVars, configVars, domLinks, scrollVars, extractVars, auxVars>>

\* The outcomes a call on the page can have: it succeeds (TRUE) or fails
\* (FALSE); on a crashed page it can only fail.
CallOutcomes == IF pageCrashed THEN {FALSE} ELSE BOOLEAN

\* ------------------------------------------------------------ field extractor
SeqsUpTo(S, n) == UNION { [1..k -> S] : k \in 0..n }

\* What the price regular expression finds in a span's text: nothing, or the
\* numeric value of the first currency-prefixed token.
Tokens == {None} \cup { Some(p) : p \in 0..MaxPrice }

\* A product link of the first script: the trimmed texts of the elements the
\* productName selectors find (in selector order), the title attribute, the
\* image, and the spans in document order.
NameTexts == {"", "Milk"}
Imgs == {None} \cup { Some([src |-> s, dataSrc |-> d, alt |-> a]) :
                        s \in {"", "u"}, d \in {None, Some("d")}, a \in {"", "A"} }
Spans == [token : Tokens, flagged : BOOLEAN]
Cards == [names : SeqsUpTo(NameTexts, MaxNameEls), title : {None, Some("T")},
          img : Imgs, spans : SeqsUpTo(Spans, MaxSpans)]

\* The index of the first TRUE of a sequence of test results, as an optional
\* value (a for loop with break, Array.prototype.find).
FirstTrue(hits) ==
    IF \E i \in 1..Len(hits) : hits[i]
    THEN Some(CHOOSE i \in 1..Len(hits) : hits[i] /\ \A j \in 1..(i - 1) : ~hits[j])
    ELSE None

\* Math.round(((originalPrice - currentPrice) / originalPrice) * 100), for
\* originalPrice > currentPrice >= 0: the nearest integer, halves upwards.
RoundPercent(originalPrice, currentPrice) ==
    (200 * (originalPrice - currentPrice) + originalPrice) \div (2 * originalPrice)

ProductName(card) ==
    LET hit == FirstTrue([i \in 1..Len(card.names) |-> card.names[i] # ""])
        alt == IF card.img = None THEN None ELSE Some(card.img[1].alt)
    IN  IF hit # None THEN Some(card.names[hit[1]])
        ELSE OrNull(OrElse(card.title, alt))

ProductImage(card) ==
    IF card.img = None THEN None
    ELSE OrNull(OrElse(Some(card.img[1].src), card.img[1].dataSrc))

CurrentPrice(card) ==
    LET hit == FirstTrue([i \in 1..Len(card.spans) |-> card.spans[i].token # None])
    IN  IF hit = None THEN None ELSE card.spans[hit[1]].token

OriginalPrice(card) ==
    LET hit == FirstTrue([i \in 1..Len(card.spans) |-> card.spans[i].flagged])
    IN  IF hit = None THEN None ELSE card.spans[hit[1]].token

DiscountPercentage(currentPrice, originalPrice) ==
    IF TruthyNum(currentPrice) /\ TruthyNum(originalPrice)
       /\ originalPrice[1] > currentPrice[1]
    THEN Some(RoundPercent(originalPrice[1], currentPrice[1]))
    ELSE None

\* if (productName || currentPrice || productImage)
ShouldEmit(productName, currentPrice, productImage) ==
    TruthyStr(productName) \/ TruthyNum(currentPrice) \/ TruthyStr(productImage)

\* The body of productLinks.forEach: the records (none or one) of one link.
ExtractCard(card, index) ==
    LET productName == ProductName(card)
        productImage == ProductImage(card)
        currentPrice == CurrentPrice(card)
        originalPrice == OriginalPrice(card)
    IN  IF ShouldEmit(productName, currentPrice, productImage)
        THEN << [productId |-> index, productName |-> productName,
                 productImage |-> productImage, currentPrice |-> currentPrice,
                 originalPrice |-> originalPrice,
                 discountPercentage |-> DiscountPercentage(currentPrice, originalPrice)] >>
        ELSE << >>

RECURSIVE ExtractProducts(_)
ExtractProducts(cards) ==
    IF cards = << >> THEN << >>
    ELSE ExtractProducts(SubSeq(cards, 1, Len(cards) - 1))
         \o ExtractCard(cards[Len(cards)], Len(cards) - 1)

\* ---- the second script's extractor (extractSearchProducts, primary path)
\* A product item: the title element's trimmed text, the image source, what
\* the price regular expression finds in each price element, and the number
\* before "%" in the discount badge.
Items == [title : {None, Some(""), Some("T")}, img : {None, Some("u")},
          prices : SeqsUpTo(Tokens, MaxSpans), badge : {None, Some(0), Some(20)}]

\* priceElements.forEach: the first price is the current price (as long as
\* currentPrice is falsy), a later greater one the original price.
RECURSIVE ItemPrices(_)
ItemPrices(prices) ==
    IF prices = << >> THEN [currentPrice |-> None, originalPrice |-> None]
    ELSE LET before == ItemPrices(SubSeq(prices, 1, Len(prices) - 1))
             price == prices[Len(prices)]
         IN  IF price = None THEN before
             ELSE IF ~TruthyNum(before.currentPrice)
                  THEN [before EXCEPT !.currentPrice = price]
                  ELSE IF price[1] > before.currentPrice[1]
                       THEN [before EXCEPT !.originalPrice = price]
                       ELSE before

ItemDiscount(badge, currentPrice, originalPrice) ==
    IF ~TruthyNum(badge) /\ TruthyNum(currentPrice) /\ TruthyNum(originalPrice)
       /\ originalPrice[1] > currentPrice[1]
    THEN Some(RoundPercent(originalPrice[1], currentPrice[1]))
    ELSE badge

\* if (productName || currentPrice)
ItemShouldEmit(productName, currentPrice) ==
    TruthyStr(productName) \/ TruthyNum(currentPrice)

ExtractItem(item, index) ==
    LET p == ItemPrices(item.prices)
    IN  IF ItemShouldEmit(item.title, p.currentPrice)
        THEN << [productId |-> index, productName |-> item.title,
                 productImage |-> item.img, currentPrice |-> p.currentPrice,
                 originalPrice |-> p.originalPrice,
                 discountPercentage |->
                     ItemDiscount(item.badge, p.currentPrice, p.originalPrice)] >>
        ELSE << >>

\* ------------------------------------------------------------ the page
\* The listing the site serves: the page shows its first domLinks links. The
\* second link is an empty shell (no name, no image, no price).
CatalogCard(i) ==
    IF i = 2
    THEN [names |-> << >>, title |-> None, img |-> None, spans |-> << >>]
    ELSE [names |-> <<"Milk">>, title |-> None,
          img |-> Some([src |-> "u", dataSrc |-> None, alt |-> ""]),
          spans |-> << [token |-> Some(1), flagged |-> FALSE] >>]

PageCards(n) == [i \in 1..n |-> CatalogCard(i)]

\* ------------------------------------------------------------ autoScroll
\* Mutant: the loop test off by one (scrollCount <= maxScrolls).
ScrollBudgetLeft_Inclusive(count, max) == count <= max

\* while (scrollCount < maxScrolls)
ScrollBudgetLeft(count, max) == count < max

\* The no-change counter after a read of currentProductCount.
NextNoChangeCount(currentProductCount, previous, noChange) ==
    IF currentProductCount = previous THEN noChange + 1 ELSE 0

\* Mutant: previousProductCount is never updated.
NextPreviousCount_Stale(currentProductCount, previous) == previous

\* previousProductCount after a read of currentProductCount.
NextPreviousCount(currentProductCount, previous) ==
    IF currentProductCount = previous THEN previous ELSE currentProductCount

\* Mutant: the stop test is strict (noChangeCount > MAX_NO_CHANGE).
StabilityReached_Strict(noChange) == noChange > MAX_NO_CHANGE

\* if (noChangeCount >= MAX_NO_CHANGE) break
StabilityReached(noChange) == noChange >= MAX_NO_CHANGE

\* The call autoScroll(page, log, max): its locals at entry.
EnterAutoScroll(from, max) ==
    /\ caller' = from
    /\ maxScrolls' = max
    /\ scrollCount' = 0
    /\ previousProductCount' = 0
    /\ noChangeCount' = 0
    /\ reads' = << >>
    /\ bottomScrolls' = 0
    /\ topScrolls' = 0
    /\ warnings' = 0

\* catch (error) { log.warning(...) }: the function ends there.
AutoScrollCatch ==
    /\ warnings' = warnings + 1
    /\ pc' = "as_return"

\* The loop test, and scrollCount++ when the loop goes on.
AutoScrollLoopHead ==
    /\ pc = "as_loop"
    /\ IF ScrollBudgetLeft(scrollCount, maxScrolls)
       THEN /\ scrollCount' = scrollCount + 1
            /\ pc' = "as_bottom"
       ELSE /\ pc' = "as_top"
            /\ UNCHANGED scrollCount
    /\ UNCHANGED <<handlerVars, configVars, domLinks, extractVars, caller, maxScrolls,
                   previousProductCount, noChangeCount, reads, bottomScrolls,
                   topScrolls, warnings, auxVars>>

\* page.evaluate(window.scrollTo(0, document.body.scrollHeight)) and the wait
\* for content: the page may load or drop links; the call may fail.
ScrollToBottom ==
    /\ pc = "as_bottom"
    /\ bottomScrolls' = bottomScrolls + 1
    /\ \E ok \in CallOutcomes :
         IF ok
         THEN /\ \E n \in 0..MaxLinks : domLinks' = n
              /\ pc' = "as_measure"
              /\ UNCHANGED warnings
         ELSE /\ AutoScrollCatch
              /\ UNCHANGED domLinks
    /\ UNCHANGED <<handlerVars, configVars, extractVars, caller, maxScrolls, scrollCount,
                   previousProductCount, noChangeCount, reads, topScrolls, auxVars>>

\* page.evaluate(querySelectorAll(productLink).length) and the comparison
\* with the previous count; the call may fail.
CountProducts ==
    /\ pc = "as_measure"
    /\ \E ok \in CallOutcomes :
         IF ok
         THEN LET currentProductCount == domLinks
                  noChange == NextNoChangeCount(currentProductCount,
                                                previousProductCount, noChangeCount)
              IN  /\ reads' = Append(reads, currentProductCount)
                  /\ noChangeCount' = noChange
                  /\ previousProductCount' =
                        NextPreviousCount(currentProductCount, previousProductCount)
                  /\ pc' = IF currentProductCount = previousProductCount
                              /\ StabilityReached(noChange)
                           THEN "as_top" ELSE "as_loop"
                  /\ UNCHANGED warnings
         ELSE /\ AutoScrollCatch
              /\ UNCHANGED <<reads, noChangeCount, previousProductCount>>
    /\ UNCHANGED <<handlerVars, configVars, domLinks, extractVars, caller, maxScrolls,
                   scrollCount, bottomScrolls, topScrolls, auxVars>>

\* page.evaluate(window.scrollTo(0, 0)); the call may fail.
ScrollToTop ==
    /\ pc = "as_top"
    /\ topScrolls' = topScrolls + 1
    /\ \E ok \in CallOutcomes :
         IF ok
         THEN /\ pc' = "as_return"
              /\ UNCHANGED warnings
         ELSE AutoScrollCatch
    /\ UNCHANGED <<handlerVars, configVars, domLinks, extractVars, caller, maxScrolls,
                   scrollCount, previousProductCount, noChangeCount, reads,
                   bottomScrolls, auxVars>>

\* autoScroll returns (it never throws): the handler goes on to extraction.
AutoScrollReturn ==
    /\ pc = "as_return"
    /\ pc' = IF caller = "requestHandler" THEN "h_extract" ELSE "as_done"
    /\ events' = IF caller = "requestHandler" THEN Append(events, "scrolled") ELSE events
    /\ UNCHANGED <<handlerVars, configVars, domLinks, scrollVars, extractVars, otherAux>>

\* ------------------------------------------------------------ requestHandler
Url == "https://www.zepto.com/search?query=milk"

\* Mutant: the loop test off by one (attemptNumber <= MAX_RETRIES).
LoopContinues_Inclusive(attempt) == attempt <= MAX_RETRIES

\* while (attemptNumber < MAX_RETRIES)
LoopContinues(attempt) == attempt < MAX_RETRIES

\* Mutant: the page is reloaded after the last attempt too.
AttemptsRemain_Inclusive(attempt) == attempt <= MAX_RETRIES

\* if (attemptNumber < MAX_RETRIES), before each page.reload
AttemptsRemain(attempt) == attempt < MAX_RETRIES

\* if (products.length >= MIN_PRODUCTS) break
EnoughProducts(list) == Len(list) >= MIN_PRODUCTS

\* The name under which the verdict of waitForSearchResults is recorded.
WaitEvent(resultsFound) == IF resultsFound THEN "found" ELSE "notfound"

\* Mutant: the attempt goes on to the scroll loop whatever the verdict.
SkipsAttempt_Never(resultsFound) == FALSE

\* if (!resultsFound) { reload and continue, or return }
SkipsAttempt(resultsFound) == ~resultsFound

\* Mutant: the whole list is saved.
SliceFromStart_All(list, end) == list

\* Array.prototype.slice(0, end)
SliceFromStart(list, end) ==
    LET stop == IF end < 0 THEN (IF Len(list) + end < 0 THEN 0 ELSE Len(list) + end)
                ELSE Min(end, Len(list))
    IN  SubSeq(list, 1, stop)

\* products.slice(0, maxProductsPerSearch).map(product => ({...product, searchUrl: url, ...}))
ProductsToSave(list, max) ==
    LET kept == SliceFromStart(list, max)
    IN  [i \in 1..Len(kept) |-> [product |-> kept[i], searchUrl |-> Url]]

\* catch (error) { log.error(...); throw error; }
HandlerThrows ==
    /\ outcome' = "thrown"
    /\ pc' = "h_done"

\* return (the handler ends normally, nothing is saved)
HandlerReturns ==
    /\ outcome' = "returned"
    /\ pc' = "h_done"

\* The handler up to the retry loop: the location flow on the first request
\* (it never throws), the load-state wait (it may throw), the popup.
HandlerStart ==
    /\ pc = "h_start"
    /\ \E ok \in CallOutcomes :
         IF ok THEN pc' = "h_loop" /\ UNCHANGED outcome
         ELSE HandlerThrows
    /\ UNCHANGED <<attemptNumber, products, reloads, attemptLog, sink, pushCalls,
                   configVars, domLinks, scrollVars, extractVars, auxVars>>

\* The loop test, and attemptNumber++ when the loop goes on.
RetryLoopHead ==
    /\ pc = "h_loop"
    /\ IF LoopContinues(attemptNumber)
       THEN /\ attemptNumber' = attemptNumber + 1
            /\ events' = Append(events, "attempt")
            /\ pc' = "h_wait"
       ELSE /\ pc' = "h_after"
            /\ UNCHANGED <<attemptNumber, events>>
    /\ UNCHANGED <<products, reloads, attemptLog, sink, pushCalls, outcome,
                   configVars, domLinks, scrollVars, extractVars, otherAux>>

\* waitForSearchResults (it never throws) and the branch on its result:
\* without results, reload and retry or return; with results, autoScroll.
WaitForSearchResults ==
    /\ pc = "h_wait"
    /\ \E resultsFound \in CallOutcomes :
         IF SkipsAttempt(resultsFound)
         THEN /\ attemptLog' = Append(attemptLog,
                                      [resultsFound |-> FALSE, links |-> 0, count |-> 0])
              /\ events' = Append(events, WaitEvent(resultsFound))
              /\ IF AttemptsRemain(attemptNumber)
                 THEN pc' = "h_reload" /\ UNCHANGED outcome
                 ELSE HandlerReturns
              /\ UNCHANGED <<domLinks, scrollVars>>
         ELSE /\ \E n \in 0..MaxLinks : domLinks' = n
              /\ EnterAutoScroll("requestHandler", cfgScrollCount)
              /\ events' = events \o <<WaitEvent(resultsFound), "scroll">>
              /\ pc' = "as_loop"
              /\ UNCHANGED <<attemptLog, outcome>>
    /\ UNCHANGED <<attemptNumber, products, reloads, sink, pushCalls, configVars,
                   extractVars, otherAux>>

\* page.reload({ waitUntil: 'domcontentloaded' }), then the next iteration;
\* the reload may throw.
ReloadPage ==
    /\ pc = "h_reload"
    /\ reloads' = reloads + 1
    /\ \E ok \in CallOutcomes :
         IF ok
         THEN /\ \E n \in 0..MaxLinks : domLinks' = n
              /\ pc' = "h_loop"
              /\ UNCHANGED outcome
         ELSE /\ HandlerThrows
              /\ UNCHANGED domLinks
    /\ UNCHANGED <<attemptNumber, products, attemptLog, sink, pushCalls, configVars,
                   scrollVars, extractVars, auxVars>>

\* page.evaluate(extraction), products = extractedData.products, and the
\* check of the count; the evaluation may throw.
ExtractData ==
    /\ pc = "h_extract"
    /\ \E ok \in CallOutcomes :
         IF ok
         THEN LET extracted == ExtractProducts(PageCards(domLinks))
              IN  /\ products' = extracted
                  /\ attemptLog' = Append(attemptLog,
                        [resultsFound |-> TRUE, links |-> domLinks,
                         count |-> Len(extracted)])
                  /\ pc' = IF EnoughProducts(extracted) THEN "h_after"
                           ELSE IF AttemptsRemain(attemptNumber) THEN "h_reload"
                           ELSE "h_loop"
                  /\ UNCHANGED outcome
         ELSE /\ HandlerThrows
              /\ UNCHANGED <<products, attemptLog>>
    /\ events' = Append(events, "extract")
    /\ UNCHANGED <<attemptNumber, reloads, sink, pushCalls, configVars, domLinks,
                   scrollVars, extractVars, otherAux>>

\* After the loop: return when nothing was extracted, else
\* Dataset.pushData(productsToSave); pushData may throw.
SaveProducts ==
    /\ pc = "h_after"
    /\ IF Len(products) = 0
       THEN /\ HandlerReturns
            /\ UNCHANGED <<sink, pushCalls, events>>
       ELSE \E ok \in BOOLEAN :
              IF ok
              THEN /\ sink' = sink \o ProductsToSave(products, maxProductsPerSearch)
                   /\ pushCalls' = pushCalls + 1
                   /\ events' = Append(events, "save")
                   /\ outcome' = "saved"
                   /\ pc' = "h_done"
              ELSE /\ HandlerThrows
                   /\ UNCHANGED <<sink, pushCalls, events>>
    /\ UNCHANGED <<attemptNumber, products, reloads, attemptLog, configVars, domLinks,
                   scrollVars, extractVars, otherAux>>

\* ------------------------------------------------------------ specifications
ScrollIdle ==
    /\ caller = "none"
    /\ maxScrolls = 0
    /\ scrollCount = 0
    /\ previousProductCount = 0
    /\ noChangeCount = 0
    /\ reads = << >>
    /\ bottomScrolls = 0
    /\ topScrolls = 0
    /\ warnings = 0

HandlerIdle ==
    /\ attemptNumber = 0
    /\ products = << >>
    /\ reloads = 0
    /\ attemptLog = << >>
    /\ sink = << >>
    /\ pushCalls = 0
    /\ outcome = "running"

ExtractIdle ==
    /\ exPc = "idle"
    /\ exInput = None
    /\ exOut = << >>

PincodeIdle ==
    /\ isFirst = FALSE
    /\ locationSet = "unset"
    /\ pinSteps = << >>

WaitIdle ==
    /\ waitAttempt = 0
    /\ waitLog = << >>
    /\ waitResult = "none"

CrawlerIdle ==
    /\ requests = << >>
    /\ running = 0
    /\ pincodeRuns = << >>
    /\ maxRequestRetries = 0

FailedIdle ==
    /\ failedUrls = << >>
    /\ failing = << >>

ConcurrentIdle ==
    /\ inv = << >>
    /\ dataset = << >>
    /\ FailedIdle

AuxIdle ==
    /\ PincodeIdle
    /\ pageCrashed = FALSE
    /\ WaitIdle
    /\ CrawlerIdle
    /\ ConcurrentIdle
    /\ events = << >>

\* One invocation of requestHandler on a page that has been navigated to.
Init ==
    /\ pc = "h_start"
    /\ HandlerIdle
    /\ cfgScrollCount \in 0..HandlerScrolls
    /\ maxProductsPerSearch \in {SmallMaxProducts, DefaultMaxProducts}
    /\ domLinks \in 0..MaxLinks
    /\ ScrollIdle
    /\ ExtractIdle
    /\ AuxIdle

Next ==
    \/ HandlerStart
    \/ RetryLoopHead
    \/ WaitForSearchResults
    \/ ReloadPage
    \/ AutoScrollLoopHead
    \/ ScrollToBottom
    \/ CountProducts
    \/ ScrollToTop
    \/ AutoScrollReturn
    \/ ExtractData
    \/ SaveProducts

Spec == Init /\ [][Next]_vars

\* autoScroll called on its own, for every maxScrolls and every page.
InitScroll ==
    /\ pc = "as_loop"
    /\ HandlerIdle
    /\ cfgScrollCount = 0
    /\ maxProductsPerSearch = DefaultMaxProducts
    /\ domLinks \in 0..MaxLinks
    /\ caller = "direct"
    /\ maxScrolls \in (0 - 1)..MaxScrolls
    /\ scrollCount = 0
    /\ previousProductCount = 0
    /\ noChangeCount = 0
    /\ reads = << >>
    /\ bottomScrolls = 0
    /\ topScrolls = 0
    /\ warnings = 0
    /\ ExtractIdle
    /\ AuxIdle

NextScroll ==
    \/ AutoScrollLoopHead
    \/ ScrollToBottom
    \/ CountProducts
    \/ ScrollToTop
    \/ AutoScrollReturn

SpecScroll == InitScroll /\ [][NextScroll]_vars

\* The field extractors applied to one card / one item.
ExtractMain ==
    /\ exPc = "ready"
    /\ exInput.kind = "card"
    /\ exOut' = ExtractCard(exInput.v, 0)
    /\ exPc' = "done"
    /\ UNCHANGED <<pc, handlerVars, configVars, domLinks, scrollVars, exInput, auxVars>>

ExtractCopy ==
    /\ exPc = "ready"
    /\ exInput.kind = "item"
    /\ exOut' = ExtractItem(exInput.v, 0)
    /\ exPc' = "done"
    /\ UNCHANGED <<pc, handlerVars, configVars, domLinks, scrollVars, exInput, auxVars>>

InitExtract ==
    /\ pc = "idle"
    /\ HandlerIdle
    /\ cfgScrollCount = 0
    /\ maxProductsPerSearch = DefaultMaxProducts
    /\ domLinks = 0
    /\ ScrollIdle
    /\ exPc = "ready"
    /\ exInput \in { [kind |-> "card", v |-> c] : c \in Cards }
                   \cup { [kind |-> "item", v |-> i] : i \in Items }
    /\ exOut = << >>
    /\ AuxIdle

NextExtract == ExtractMain \/ ExtractCopy

SpecExtract == InitExtract /\ [][NextExtract]_vars

\* ------------------------------------------------------------ properties
\* The value a read is compared with: the read before it, 0 for the first.
ReadBefore(s, i) == IF i = 1 THEN 0 ELSE s[i - 1]

\* The number of most recent consecutive reads that equal the read before them.
TrailingRun(s) ==
    Cardinality({ k \in 1..Len(s) : \A j \in k..Len(s) : s[j] = ReadBefore(s, j) })

StrictlyIncreasing(s) == \A i \in 1..Len(s) : s[i] > ReadBefore(s, i)

LastAttempt == attemptLog[Len(attemptLog)]

\* The handler is inside an attempt: waiting for results, scrolling, extracting.
InAttempt ==
    pc \in {"h_wait", "as_loop", "as_bottom", "as_measure", "as_top", "as_return",
            "h_extract"}

\* C1: the retry shell stops at the first attempt that extracts at least 5
\* records, reloads the page exactly once between consecutive attempts and
\* never after the last one (reloads = attempts - 1, at most 2), and the
\* records it goes on to save are those of the attempt it stopped at.
C1_RetryShell ==
    /\ attemptNumber \in 0..3
    /\ reloads \in 0..2
    /\ \A k \in 1..(Len(attemptLog) - 1) : attemptLog[k].count < 5
    /\ InAttempt => reloads = attemptNumber - 1
    /\ pc = "h_loop" =>
          \/ reloads = attemptNumber
          \/ attemptNumber = 3 /\ reloads = 2
    /\ (pc = "h_after" \/ (pc = "h_done" /\ outcome \in {"saved", "returned"})) =>
          /\ attemptNumber >= 1
          /\ reloads = attemptNumber - 1
          /\ Len(attemptLog) = attemptNumber
    /\ (Len(attemptLog) > 0 /\ LastAttempt.count >= 5) =>
          /\ pc \in {"h_after", "h_done"}
          /\ products = ExtractProducts(PageCards(LastAttempt.links))
    /\ pc = "h_after" =>
          /\ LastAttempt.resultsFound
          /\ products = ExtractProducts(PageCards(LastAttempt.links))
          /\ Len(products) = LastAttempt.count

\* C1 witness: counts 2, 3, 6 over three attempts, two reloads, the 6 records saved.
C1_Witness ==
    /\ pc = "h_done"
    /\ outcome = "saved"
    /\ Len(attemptLog) = 3
    /\ attemptLog[1].count = 2
    /\ attemptLog[2].count = 3
    /\ attemptLog[3].count = 6
    /\ reloads = 2
    /\ Len(products) = 6

AllAttemptsEmpty == \A k \in 1..Len(attemptLog) : attemptLog[k].count = 0

\* C2: when every attempt extracts zero records the handler makes exactly
\* three attempts and no fourth, writes nothing to the sink and returns
\* normally instead of throwing.
C2_AllEmptyIsNoOp ==
    AllAttemptsEmpty =>
        /\ attemptNumber <= 3
        /\ sink = << >>
        /\ pushCalls = 0
        /\ outcome # "saved"
        /\ Len(attemptLog) = 3 => outcome # "thrown" /\ attemptNumber = 3
        /\ (pc = "h_done" /\ outcome # "thrown") =>
              /\ outcome = "returned"
              /\ attemptNumber = 3
              /\ Len(attemptLog) = 3

\* C2 witness: three attempts found results, each extracted nothing, and the
\* handler has returned.
C2_Witness ==
    /\ pc = "h_done"
    /\ outcome = "returned"
    /\ Len(attemptLog) = 3
    /\ \A k \in 1..3 : attemptLog[k].resultsFound /\ attemptLog[k].count = 0

\* The attempts of this invocation that ran the extraction.
ExtractingAttempts == { k \in 1..Len(attemptLog) : attemptLog[k].resultsFound }

LastExtractingAttempt ==
    CHOOSE k \in ExtractingAttempts : \A j \in ExtractingAttempts : j <= k

\* C3: when the three attempts are exhausted below the minimum, the handler
\* saves what was last extracted in this invocation: a non-empty last
\* extraction is written to the sink, also when a later attempt detected no
\* search results.
C3_LastExtractionIsSaved ==
    ( /\ pc = "h_done"
      /\ outcome # "thrown"
      /\ Len(attemptLog) = 3
      /\ \A k \in 1..3 : attemptLog[k].count < 5
      /\ ExtractingAttempts # {}
      /\ attemptLog[LastExtractingAttempt].count > 0 ) =>
        /\ outcome = "saved"
        /\ sink = ProductsToSave(
                     ExtractProducts(PageCards(attemptLog[LastExtractingAttempt].links)),
                     maxProductsPerSearch)

\* C4: once the count has been unchanged for 3 consecutive reads the loop has
\* stopped, whatever budget remains: the loop is not running and no scroll to
\* the bottom follows the third unchanged read.
C4_StopsAtThirdRepeat ==
    TrailingRun(reads) >= 3 =>
        /\ pc \in {"as_top", "as_return", "as_done"}
        /\ bottomScrolls = Len(reads)
        /\ scrollCount = Len(reads)

\* C4 witness: autoScroll has returned after three unchanged reads with
\* budget left.
C4_Witness ==
    /\ pc = "as_done"
    /\ TrailingRun(reads) = 3
    /\ scrollCount < maxScrolls
    /\ topScrolls = 1

\* C5: the loop never runs more than maxScrolls iterations (none when
\* maxScrolls <= 0), and when the count grows on every read it leaves the
\* loop after exactly maxScrolls iterations.
C5_IterationCap ==
    /\ maxScrolls <= 0 => scrollCount = 0 /\ bottomScrolls = 0 /\ reads = << >>
    /\ maxScrolls > 0 =>
          scrollCount <= maxScrolls /\ bottomScrolls <= maxScrolls
          /\ Len(reads) <= maxScrolls
    /\ (pc = "as_top" /\ maxScrolls > 0 /\ StrictlyIncreasing(reads)) =>
          /\ Len(reads) = maxScrolls
          /\ bottomScrolls = maxScrolls
          /\ scrollCount = maxScrolls

\* C5 witness: the count grew on each of maxScrolls >= 3 reads and
\* autoScroll has returned.
C5_Witness ==
    /\ pc = "as_done"
    /\ maxScrolls >= 3
    /\ Len(reads) = maxScrolls
    /\ StrictlyIncreasing(reads)

\* C6: the no-change counter is the number of most recent consecutive reads
\* that equalled the read before them (0 before the first), and stays in 0..3.
C6_NoChangeCounter ==
    /\ noChangeCount = TrailingRun(reads)
    /\ noChangeCount \in 0..3
    /\ previousProductCount = ReadBefore(reads, Len(reads) + 1)

\* C6 witness: an unchanged first read (0) counted 1, a changed read reset the
\* counter, and two unchanged reads followed.
C6_Witness ==
    /\ Len(reads) = 4
    /\ reads[1] = 0
    /\ reads[2] # 0
    /\ reads[3] = reads[2]
    /\ reads[4] = reads[3]
    /\ noChangeCount = 2

\* C7: however the loop ends, autoScroll scrolls back to the top before it
\* returns.
C7_ScrollToTopBeforeReturn ==
    pc \in {"as_return", "as_done"} => topScrolls >= 1

\* C8: a failing scroll or measure call never raises out of autoScroll and
\* the loop goes on: autoScroll returns only once the count is stable or all
\* maxScrolls iterations were attempted, and the caller then extracts.
C8_LoopGoesOnAfterFailure ==
    /\ InAttempt => outcome = "running"
    /\ pc \in {"as_return", "h_extract"} =>
          \/ TrailingRun(reads) >= 3
          \/ scrollCount >= maxScrolls

\* Presence of the three fields on the card handed to the first script's
\* extractor.
CardHasAnyField ==
    \/ ProductName(exInput.v) # None
    \/ CurrentPrice(exInput.v) # None
    \/ ProductImage(exInput.v) # None

\* C9: a record is emitted exactly when at least one of name, current price
\* and image URL is present on the card.
C9_InclusionInvariant ==
    (exPc = "done" /\ exInput.kind = "card") => (Len(exOut) = 1 <=> CardHasAnyField)

\* C10: an emitted record with both prices present and original > current
\* carries discountPercentage = round((original - current) / original * 100);
\* otherwise discountPercentage is absent.
C10_Discount ==
    (exPc = "done" /\ exInput.kind = "card" /\ Len(exOut) = 1) =>
        LET r == exOut[1]
        IN  IF r.currentPrice # None /\ r.originalPrice # None
               /\ r.originalPrice[1] > r.currentPrice[1]
            THEN r.discountPercentage =
                    Some(RoundPercent(r.originalPrice[1], r.currentPrice[1]))
            ELSE r.discountPercentage = None

\* C11: in every emitted record that carries both prices, originalPrice is
\* at least currentPrice (a class-flagged span whose value is below the
\* current price gives no originalPrice).
C11_PriceOrdering ==
    (exPc = "done" /\ exInput.kind = "card" /\ Len(exOut) = 1) =>
        LET r == exOut[1]
        IN  (r.currentPrice # None /\ r.originalPrice # None) =>
                r.originalPrice[1] >= r.currentPrice[1]

\* ------------------------------------------------------------ setPincode
\* SELECTORS.locationButton.length
NumLocationButtons == 3

\* The steps of setPincode, in the order of the code.
PincodeOrder == <<"load", "open", "modal", "type", "suggest", "click", "confirm">>

\* The position at which setPincode runs a step.
PinPc(step) == "p_" \o step

\* Mutant: a failed step does not end the flow.
AfterPinStep_NoShortCircuit(k, ok) ==
    IF k < Len(PincodeOrder) THEN PinPc(PincodeOrder[k + 1])
    ELSE IF ok THEN "p_true" ELSE "p_false"

\* Where setPincode goes after step k: a failed step returns false (the
\* return in the catch of the step, or the catch of the function), the last
\* step returns true, any other goes on to the next step.
AfterPinStep(k, ok) ==
    IF ~ok THEN "p_false"
    ELSE IF k = Len(PincodeOrder) THEN "p_true"
    ELSE PinPc(PincodeOrder[k + 1])

\* Step k of setPincode has run with the given outcome.
PinStepDone(k, ok) ==
    /\ pinSteps' = Append(pinSteps, [step |-> PincodeOrder[k], ok |-> ok])
    /\ pc' = AfterPinStep(k, ok)

\* if (isFirstRequest): the handler calls setPincode on the first request only.
HandlerLocation ==
    /\ pc = "h_first"
    /\ pc' = IF isFirst THEN PinPc("load") ELSE "h_loadstate"
    /\ UNCHANGED <<handlerVars, configVars, domLinks, scrollVars, extractVars, auxVars>>

\* await page.waitForLoadState('domcontentloaded') of setPincode.
PinLoad ==
    /\ pc = PinPc("load")
    /\ \E ok \in CallOutcomes : PinStepDone(1, ok)
    /\ UNCHANGED <<handlerVars, configVars, domLinks, scrollVars, extractVars, isFirst,
                   locationSet, pageCrashed, waitVars, crawlerVars, concurrentVars, events>>

\* The loop over SELECTORS.locationButton: a selector that matches nothing,
\* or whose click throws, is skipped; the picker is open once a click succeeds.
PinOpenPicker ==
    /\ pc = PinPc("open")
    /\ \E tries \in [1..NumLocationButtons -> {"absent", "throws", "clicked"}] :
         LET clicked == \E i \in 1..NumLocationButtons : tries[i] = "clicked"
         IN  /\ pageCrashed => ~clicked
             /\ PinStepDone(2, clicked)
    /\ UNCHANGED <<handlerVars, configVars, domLinks, scrollVars, extractVars, isFirst,
                   locationSet, pageCrashed, waitVars, crawlerVars, concurrentVars, events>>

\* page.waitForSelector(SELECTORS.locationModal)
PinWaitModal ==
    /\ pc = PinPc("modal")
    /\ \E ok \in CallOutcomes : PinStepDone(3, ok)
    /\ UNCHANGED <<handlerVars, configVars, domLinks, scrollVars, extractVars, isFirst,
                   locationSet, pageCrashed, waitVars, crawlerVars, concurrentVars, events>>

\* The search input is looked up (none: return false), focused, cleared and
\* the pincode typed; any of the calls may throw.
PinTypePincode ==
    /\ pc = PinPc("type")
    /\ \E ok \in CallOutcomes : PinStepDone(4, ok)
    /\ UNCHANGED <<handlerVars, configVars, domLinks, scrollVars, extractVars, isFirst,
                   locationSet, pageCrashed, waitVars, crawlerVars, concurrentVars, events>>

\* page.waitForSelector(SELECTORS.searchResultItem)
PinWaitSuggestions ==
    /\ pc = PinPc("suggest")
    /\ \E ok \in CallOutcomes : PinStepDone(5, ok)
    /\ UNCHANGED <<handlerVars, configVars, domLinks, scrollVars, extractVars, isFirst,
                   locationSet, pageCrashed, waitVars, crawlerVars, concurrentVars, events>>

\* if (await firstAddress.count() > 0) firstAddress.click({ force: true });
\* without a first address, or when the click throws, the result is false.
PinClickFirst ==
    /\ pc = PinPc("click")
    /\ \E ok \in CallOutcomes : PinStepDone(6, ok)
    /\ UNCHANGED <<handlerVars, configVars, domLinks, scrollVars, extractVars, isFirst,
                   locationSet, pageCrashed, waitVars, crawlerVars, concurrentVars, events>>

\* modalStillOpen === 0: the modal has closed (true); else false.
PinConfirmClosed ==
    /\ pc = PinPc("confirm")
    /\ \E ok \in CallOutcomes : PinStepDone(7, ok)
    /\ UNCHANGED <<handlerVars, configVars, domLinks, scrollVars, extractVars, isFirst,
                   locationSet, pageCrashed, waitVars, crawlerVars, concurrentVars, events>>

\* return true / return false: const locationSet = await setPincode(...)
PinReturn ==
    /\ pc \in {"p_true", "p_false"}
    /\ locationSet' = IF pc = "p_true" THEN "true" ELSE "false"
    /\ pc' = "h_located"
    /\ UNCHANGED <<handlerVars, configVars, domLinks, scrollVars, extractVars, isFirst,
                   pinSteps, pageCrashed, waitVars, crawlerVars, concurrentVars, events>>

\* if (locationSet) { wait for the reload; the networkidle wait's failure is
\* ignored }: the handler goes on either way.
HandlerAfterPincode ==
    /\ pc = "h_located"
    /\ pc' = "h_loadstate"
    /\ UNCHANGED <<handlerVars, configVars, domLinks, scrollVars, extractVars, auxVars>>

\* await page.waitForLoadState('domcontentloaded') of the handler (it may
\* throw) and the popup; the retry loop follows.
HandlerLoadState ==
    /\ pc = "h_loadstate"
    /\ \E ok \in CallOutcomes :
         IF ok THEN pc' = "h_loop" /\ UNCHANGED outcome
         ELSE HandlerThrows
    /\ UNCHANGED <<attemptNumber, products, reloads, attemptLog, sink, pushCalls,
                   configVars, domLinks, scrollVars, extractVars, auxVars>>

\* The handler from its entry to the start of the retry loop, for a first
\* and for a later request.
InitPincode ==
    /\ pc = "h_first"
    /\ HandlerIdle
    /\ cfgScrollCount \in 0..HandlerScrolls
    /\ maxProductsPerSearch \in {SmallMaxProducts, DefaultMaxProducts}
    /\ domLinks \in 0..MaxLinks
    /\ ScrollIdle
    /\ ExtractIdle
    /\ isFirst \in BOOLEAN
    /\ locationSet = "unset"
    /\ pinSteps = << >>
    /\ pageCrashed = FALSE
    /\ WaitIdle
    /\ CrawlerIdle
    /\ ConcurrentIdle
    /\ events = << >>

NextPincode ==
    \/ HandlerLocation
    \/ PinLoad
    \/ PinOpenPicker
    \/ PinWaitModal
    \/ PinTypePincode
    \/ PinWaitSuggestions
    \/ PinClickFirst
    \/ PinConfirmClosed
    \/ PinReturn
    \/ HandlerAfterPincode
    \/ HandlerLoadState

SpecPincode == InitPincode /\ [][NextPincode]_vars

\* ------------------------------------------------------------ crawler run
\* Most start URLs of a run, and the largest configured maxRequestRetries.
MaxUrls == 3
MaxRetriesCfg == 2

\* startUrls after the forEach: only the first request carries isFirst.
StartRequests(n) ==
    [i \in 1..n |-> [isFirst |-> (i = 1), retryCount |-> 0, state |-> "pending"]]

\* The framework hands a pending request to requestHandler; the request
\* object, userData included, is the one that was enqueued.
CrawlerTake ==
    /\ pc = "cr_idle"
    /\ \E i \in 1..Len(requests) :
         /\ requests[i].state = "pending"
         /\ running' = i
         /\ isFirst' = requests[i].isFirst
    /\ pc' = "cr_location"
    /\ UNCHANGED <<handlerVars, configVars, domLinks, scrollVars, extractVars,
                   locationSet, pinSteps, pageCrashed, waitVars, requests,
                   pincodeRuns, maxRequestRetries, concurrentVars, events>>

\* if (isFirstRequest) { const locationSet = await setPincode(...) }
CrawlerLocation ==
    /\ pc = "cr_location"
    /\ pincodeRuns' = IF isFirst THEN Append(pincodeRuns, running) ELSE pincodeRuns
    /\ pc' = "cr_body"
    /\ UNCHANGED <<handlerVars, configVars, domLinks, scrollVars, extractVars,
                   pincodeVars, pageCrashed, waitVars, requests, running,
                   maxRequestRetries, concurrentVars, events>>

\* The rest of the invocation, which ends by a return or by the throw of the
\* handler's catch. A throw is answered by the framework: the request is
\* enqueued again, unchanged but for its retry count, until maxRequestRetries
\* retries are used up, then failedRequestHandler takes it.
CrawlerBody ==
    /\ pc = "cr_body"
    /\ \E thrown \in BOOLEAN :
         LET r == requests[running]
         IN  requests' = [requests EXCEPT ![running] =
                 IF ~thrown THEN [r EXCEPT !.state = "handled"]
                 ELSE IF r.retryCount < maxRequestRetries
                      THEN [r EXCEPT !.retryCount = r.retryCount + 1]
                      ELSE [r EXCEPT !.state = "failed"]]
    /\ running' = 0
    /\ pc' = "cr_idle"
    /\ UNCHANGED <<handlerVars, configVars, domLinks, scrollVars, extractVars,
                   pincodeVars, pageCrashed, waitVars, pincodeRuns,
                   maxRequestRetries, concurrentVars, events>>

\* crawler.run(startUrls) for one to MaxUrls start URLs.
InitCrawler ==
    /\ pc = "cr_idle"
    /\ HandlerIdle
    /\ cfgScrollCount = 0
    /\ maxProductsPerSearch = DefaultMaxProducts
    /\ domLinks = 0
    /\ ScrollIdle
    /\ ExtractIdle
    /\ PincodeIdle
    /\ pageCrashed = FALSE
    /\ WaitIdle
    /\ \E n \in 1..MaxUrls : requests = StartRequests(n)
    /\ running = 0
    /\ pincodeRuns = << >>
    /\ maxRequestRetries \in 0..MaxRetriesCfg
    /\ ConcurrentIdle
    /\ events = << >>

NextCrawler ==
    \/ CrawlerTake
    \/ CrawlerLocation
    \/ CrawlerBody

SpecCrawler == InitCrawler /\ [][NextCrawler]_vars

\* C13: over a crawler run, framework retries included, setPincode is
\* executed at most once, and only in the invocation for the first start URL.
C13_PincodeOnce ==
    /\ Len(pincodeRuns) <= 1
    /\ \A k \in 1..Len(pincodeRuns) : pincodeRuns[k] = 1

\* ------------------------------------------------------------ page crash
\* The page crashes (or the network fails for good) while the handler still
\* has calls on the page ahead of it: from then on every such call rejects.
PageCrash ==
    /\ ~pageCrashed
    /\ pc \notin {"h_after", "h_done"}
    /\ pageCrashed' = TRUE
    /\ UNCHANGED <<pc, handlerVars, configVars, domLinks, scrollVars, extractVars,
                   pincodeVars, waitVars, crawlerVars, concurrentVars, events>>

NextCrash ==
    \/ Next
    \/ PageCrash

SpecCrash == Init /\ [][NextCrash]_vars

\* C14: an invocation during which the page crashed ends by a throw to the
\* framework, never by a normal return or a save.
C14_CrashPropagates ==
    (pageCrashed /\ pc = "h_done") => outcome = "thrown"

\* ------------------------------------------------------------ concurrent invocations
\* Invocations the framework runs at the same time, one per URL; invocation
\* i handles URL i and the page of URL i shows products of URL i only.
NumInvocations == 2

\* What one extraction of an invocation can find: nothing, too few, enough.
FoundCounts == {0, 1, MIN_PRODUCTS}

\* Mutant: attemptNumber and products are module-level variables, one frame
\* for all invocations.
Frame_Shared(i) == 1

\* let attemptNumber = 0; let products = []; are declared inside
\* requestHandler: each invocation has a frame of its own.
Frame(i) == i

\* The records page i yields when n products are extracted.
PageProducts(i, n) == [k \in 1..n |-> [page |-> i, index |-> k]]

\* productsToSave of invocation i: the slice, each record with searchUrl: url.
RecordsToSave(i, list, max) ==
    LET kept == SliceFromStart(list, max)
    IN  [k \in 1..Len(kept) |-> [product |-> kept[k], searchUrl |-> i, writer |-> i]]

\* Invocation i changes its position and history to own and the locals of
\* its frame to attempt and list.
InvUpdate(i, own, attempt, list) ==
    [j \in DOMAIN inv |->
        LET mine == IF j = i THEN own ELSE inv[j]
        IN  IF j = Frame(i)
            THEN [mine EXCEPT !.attemptNumber = attempt, !.products = list]
            ELSE mine]

\* One iteration of the retry loop of invocation i: attemptNumber++, then
\* either no results (reload, or return on the last attempt), or an
\* extraction (which may throw) followed by the test on MIN_PRODUCTS.
InvAttempt(i) ==
    /\ inv[i].pc = "loop"
    /\ LET f == Frame(i)
           a == inv[f].attemptNumber + 1
           me == [inv[i] EXCEPT !.steps = inv[i].steps + 1]
       IN  \/ \* waitForSearchResults gave false
              inv' = InvUpdate(i,
                       IF AttemptsRemain(a) THEN me
                       ELSE [me EXCEPT !.pc = "done", !.outcome = "returned"],
                       a, inv[f].products)
           \/ \* the extraction threw
              inv' = InvUpdate(i, [me EXCEPT !.pc = "done", !.outcome = "thrown"],
                               a, inv[f].products)
           \/ \E n \in FoundCounts :
                LET list == PageProducts(i, n)
                IN  inv' = InvUpdate(i,
                             [me EXCEPT !.extracted = list,
                                        !.pc = IF EnoughProducts(list) \/ ~LoopContinues(a)
                                               THEN "after" ELSE "loop"],
                             a, list)
    /\ UNCHANGED <<pc, handlerVars, configVars, domLinks, scrollVars, extractVars,
                   pincodeVars, pageCrashed, waitVars, crawlerVars, dataset, failedVars,
                   events>>

\* After the loop of invocation i: return when the list is empty, else one
\* Dataset.pushData of the records to save.
InvSave(i) ==
    /\ inv[i].pc = "after"
    /\ LET list == inv[Frame(i)].products
       IN  IF Len(list) = 0
           THEN /\ inv' = [inv EXCEPT ![i].pc = "done", ![i].outcome = "returned"]
                /\ UNCHANGED dataset
           ELSE /\ dataset' = dataset \o RecordsToSave(i, list, maxProductsPerSearch)
                /\ inv' = [inv EXCEPT ![i].pc = "done", ![i].outcome = "saved"]
    /\ UNCHANGED <<pc, handlerVars, configVars, domLinks, scrollVars, extractVars,
                   pincodeVars, pageCrashed, waitVars, crawlerVars, failedVars, events>>

InitConcurrent ==
    /\ pc = "concurrent"
    /\ HandlerIdle
    /\ cfgScrollCount = 0
    /\ maxProductsPerSearch \in {SmallMaxProducts, DefaultMaxProducts}
    /\ domLinks = 0
    /\ ScrollIdle
    /\ ExtractIdle
    /\ PincodeIdle
    /\ pageCrashed = FALSE
    /\ WaitIdle
    /\ CrawlerIdle
    /\ inv = [i \in 1..NumInvocations |->
                [pc |-> "loop", outcome |-> "running", steps |-> 0,
                 extracted |-> << >>, attemptNumber |-> 0, products |-> << >>]]
    /\ dataset = << >>
    /\ FailedIdle
    /\ events = << >>

NextConcurrent ==
    \/ \E i \in 1..NumInvocations : InvAttempt(i)
    \/ \E i \in 1..NumInvocations : InvSave(i)

SpecConcurrent == InitConcurrent /\ [][NextConcurrent]_vars

\* The records invocation i has written to the dataset, in order.
WrittenBy(i) == SelectSeq(dataset, LAMBDA rec : rec.writer = i)

\* C15: under any interleaving, the attempt counter, the record list and the
\* outcome of an invocation are those of its own steps and its own page, and
\* every record in the sink carries the URL of the invocation that wrote it,
\* with a product of that URL's page.
C15_NoSharedState ==
    /\ \A i \in 1..NumInvocations :
         /\ inv[i].attemptNumber = inv[i].steps
         /\ inv[i].products = inv[i].extracted
         /\ \A k \in 1..Len(inv[i].products) : inv[i].products[k].page = i
         /\ inv[i].outcome = "saved" =>
               WrittenBy(i) = RecordsToSave(i, inv[i].extracted, maxProductsPerSearch)
         /\ inv[i].outcome # "saved" => WrittenBy(i) = << >>
    /\ \A k \in 1..Len(dataset) :
         /\ dataset[k].searchUrl = dataset[k].writer
         /\ dataset[k].product.page = dataset[k].searchUrl

\* C15 witness: two invocations interleaved, the second saved before the
\* first, each after a different number of attempts.
C15_Witness ==
    /\ inv[1].outcome = "saved"
    /\ inv[2].outcome = "saved"
    /\ inv[1].attemptNumber = 2
    /\ inv[2].attemptNumber = 3
    /\ Len(dataset) > 1
    /\ dataset[1].writer = 2
    /\ dataset[Len(dataset)].writer = 1

\* ------------------------------------------------------------ the second script's handler
\* The listing of the second site: item 2 is an empty shell.
CatalogItem(i) ==
    IF i = 2
    THEN [title |-> None, img |-> None, prices |-> << >>, badge |-> None]
    ELSE [title |-> Some("T"), img |-> Some("u"), prices |-> << Some(1) >>,
          badge |-> None]

PageItems(n) == [i \in 1..n |-> CatalogItem(i)]

\* productItems.forEach((item, index) => ...)
RECURSIVE ExtractItems(_)
ExtractItems(items) ==
    IF items = << >> THEN << >>
    ELSE ExtractItems(SubSeq(items, 1, Len(items) - 1))
         \o ExtractItem(items[Len(items)], Len(items) - 1)

\* The fallback pass: a container with a title element and a price element
\* (the listing's containers all show the ADD button) gives a record with
\* name, image and current price.
RECURSIVE FallbackItems(_)
FallbackItems(items) ==
    IF items = << >> THEN << >>
    ELSE LET item == items[Len(items)]
             found == IF item.title # None /\ item.prices # << >>
                      THEN << [productId |-> Len(items) - 1, productName |-> item.title,
                               productImage |-> item.img,
                               currentPrice |-> item.prices[1],
                               originalPrice |-> None,
                               discountPercentage |-> None] >>
                      ELSE << >>
         IN  FallbackItems(SubSeq(items, 1, Len(items) - 1)) \o found

\* extractSearchProducts: the primary pass, the fallback when it found nothing.
ExtractSearchProducts(items) ==
    IF ExtractItems(items) # << >> THEN ExtractItems(items) ELSE FallbackItems(items)

\* The positions of the second script's handler.
CopyPcs == {"c_start", "c_wait", "c_scroll", "c_extract", "c_save", "c_done"}

\* catch (error) { ...; throw error; } of the second script
CopyThrows ==
    /\ outcome' = "thrown"
    /\ pc' = "c_done"

\* await page.waitForLoadState('domcontentloaded') (it may throw), the popup.
CopyStart ==
    /\ pc = "c_start"
    /\ \E ok \in CallOutcomes :
         IF ok THEN pc' = "c_wait" /\ UNCHANGED outcome
         ELSE CopyThrows
    /\ UNCHANGED <<attemptNumber, products, reloads, attemptLog, sink, pushCalls,
                   configVars, domLinks, scrollVars, extractVars, auxVars>>

\* const resultsFound = await waitForSearchResults(page, log); a false
\* verdict is logged and the handler goes on.
CopyWaitForSearchResults ==
    /\ pc = "c_wait"
    /\ \E resultsFound \in CallOutcomes :
         events' = Append(events, WaitEvent(resultsFound))
    /\ \E n \in 0..MaxLinks : domLinks' = n
    /\ pc' = "c_scroll"
    /\ UNCHANGED <<handlerVars, configVars, scrollVars, extractVars, otherAux>>

\* await autoScroll(page, log, scrollCount) of the second script: scrollCount
\* scrolls down and one to the top; an error ends it with a warning.
CopyAutoScroll ==
    /\ pc = "c_scroll"
    /\ \E ok \in CallOutcomes :
         IF ok
         THEN /\ bottomScrolls' = cfgScrollCount
              /\ topScrolls' = 1
              /\ UNCHANGED warnings
         ELSE /\ \E done \in 0..cfgScrollCount : bottomScrolls' = done
              /\ warnings' = warnings + 1
              /\ UNCHANGED topScrolls
    /\ events' = events \o <<"scroll", "scrolled">>
    /\ pc' = "c_extract"
    /\ UNCHANGED <<handlerVars, configVars, domLinks, caller, maxScrolls, scrollCount,
                   previousProductCount, noChangeCount, reads, extractVars, otherAux>>

\* const products = await extractSearchProducts(page, log) (an error inside
\* gives the empty list); if (products.length === 0) return;
CopyExtract ==
    /\ pc = "c_extract"
    /\ \E ok \in CallOutcomes :
         LET extracted == IF ok THEN ExtractSearchProducts(PageItems(domLinks))
                          ELSE << >>
         IN  /\ products' = extracted
             /\ IF Len(extracted) = 0
                THEN outcome' = "returned" /\ pc' = "c_done"
                ELSE pc' = "c_save" /\ UNCHANGED outcome
    /\ events' = Append(events, "extract")
    /\ UNCHANGED <<attemptNumber, reloads, attemptLog, sink, pushCalls, configVars,
                   domLinks, scrollVars, extractVars, otherAux>>

\* for (const product of products.slice(0, maxProductsPerSearch)) {
\*   product.searchUrl = url; await Dataset.pushData(product); }
\* one iteration, or the end of the loop; pushData may throw.
CopySaveNext ==
    /\ pc = "c_save"
    /\ LET kept == SliceFromStart(products, maxProductsPerSearch)
       IN  IF pushCalls < Len(kept)
           THEN \E ok \in BOOLEAN :
                  IF ok
                  THEN /\ sink' = Append(sink, [product |-> kept[pushCalls + 1],
                                                searchUrl |-> Url])
                       /\ pushCalls' = pushCalls + 1
                       /\ events' = Append(events, "save")
                       /\ UNCHANGED <<pc, outcome>>
                  ELSE /\ CopyThrows
                       /\ UNCHANGED <<sink, pushCalls, events>>
           ELSE /\ outcome' = "saved"
                /\ pc' = "c_done"
                /\ UNCHANGED <<sink, pushCalls, events>>
    /\ UNCHANGED <<attemptNumber, products, reloads, attemptLog, configVars, domLinks,
                   scrollVars, extractVars, otherAux>>

\* One invocation of the second script's requestHandler.
InitCopy ==
    /\ pc = "c_start"
    /\ HandlerIdle
    /\ cfgScrollCount \in 0..HandlerScrolls
    /\ maxProductsPerSearch \in {SmallMaxProducts, DefaultMaxProducts}
    /\ domLinks = 0
    /\ ScrollIdle
    /\ ExtractIdle
    /\ AuxIdle

NextCopy ==
    \/ CopyStart
    \/ CopyWaitForSearchResults
    \/ CopyAutoScroll
    \/ CopyExtract
    \/ CopySaveNext

\* One invocation of the handler of either script.
InitScripts == Init \/ InitCopy

NextScripts ==
    \/ Next
    \/ NextCopy

SpecScripts == InitScripts /\ [][NextScripts]_vars

\* C16: the records an invocation has written are, in order, the first
\* extracted records, never more than maxProductsPerSearch of them, and an
\* invocation that saved has written the first min(n, maxProductsPerSearch).
C16_MaxRecords ==
    /\ Len(sink) <= Min(Len(products), maxProductsPerSearch)
    /\ \A k \in 1..Len(sink) :
         sink[k] = [product |-> products[k], searchUrl |-> Url]
    /\ outcome = "saved" => Len(sink) = Min(Len(products), maxProductsPerSearch)

\* C16 witness: more records were extracted than the maximum allows; the
\* invocation saved exactly the maximum.
C16_Witness ==
    /\ outcome = "saved"
    /\ pc = "h_done"
    /\ Len(products) > maxProductsPerSearch
    /\ Len(sink) = maxProductsPerSearch

\* The event before position k of the invocation's history ("none" at 1).
EventBefore(k) == IF k > 1 THEN events[k - 1] ELSE "none"

\* Wait, scroll and extraction follow each other in this order, and once the
\* sink has been written nothing but further writes of the save follows.
StepsInOrder ==
    \A k \in 1..Len(events) :
        /\ events[k] = "scroll" => EventBefore(k) \in {"found", "notfound"}
        /\ events[k] = "scrolled" => EventBefore(k) = "scroll"
        /\ events[k] = "extract" => EventBefore(k) = "scrolled"
        /\ events[k] = "save" => EventBefore(k) \in {"extract", "save"}
        /\ EventBefore(k) = "save" => events[k] = "save"

\* The scroll loop starts only after a verdict that results were detected.
ScrollOnlyWhenFound ==
    \A k \in 1..Len(events) : events[k] = "scroll" => EventBefore(k) = "found"

\* C19 as stated: in every attempt of every handler the steps are wait,
\* scroll, extraction in this order, scroll and extraction run only when
\* results were detected, and the sink is written only after the loop.
C19_OrderingAsStated ==
    /\ StepsInOrder
    /\ ScrollOnlyWhenFound
    /\ sink # << >> => pc \in {"h_done", "c_save", "c_done"}

\* C19 amended: the order wait, scroll, extraction and the late write of the
\* sink hold in both scripts; that scroll and extraction run only when
\* results were detected holds in the first script's retry loop, where every
\* attempt starts with the wait and a negative verdict ends the attempt; the
\* second script's single attempt scrolls and extracts after either verdict.
C19_Ordering ==
    /\ StepsInOrder
    /\ pc \notin CopyPcs =>
          /\ ScrollOnlyWhenFound
          /\ \A k \in 1..Len(events) :
                /\ events[k] \in {"found", "notfound"} => EventBefore(k) = "attempt"
                /\ EventBefore(k) = "attempt" => events[k] \in {"found", "notfound"}
                /\ EventBefore(k) = "notfound" => events[k] = "attempt"
          /\ sink # << >> => pc = "h_done"
    /\ pc \in CopyPcs =>
          /\ Len(events) >= 1 => events[1] \in {"found", "notfound"}
          /\ Len(events) >= 2 => events[2] = "scroll"
          /\ sink # << >> => pc \in {"c_save", "c_done"}

\* C19 witness: the second script's handler saved records although no search
\* results had been detected.
C19_Witness ==
    /\ pc = "c_done"
    /\ outcome = "saved"
    /\ Len(events) > 4
    /\ events[1] = "notfound"
    /\ events[2] = "scroll"
    /\ events[4] = "extract"
    /\ events[5] = "save"

\* ------------------------------------------------------------ text parsing
\* A text is a sequence of characters. Rupee stands for the one character of
\* the currency sign.
Rupee == "Rs"
Digits == <<"0", "1", "2", "3", "4", "5", "6", "7", "8", "9">>
DigitSet == { Digits[i] : i \in 1..10 }
DigitValue(c) == (CHOOSE i \in 1..10 : Digits[i] = c) - 1

\* Numbers that parseFloat returns are kept in hundredths; the texts of the
\* model carry at most two fraction digits.
HundredthsPerUnit == 100

RECURSIVE Pow10(_)
Pow10(k) == IF k = 0 THEN 1 ELSE 10 * Pow10(k - 1)

\* The character at position i, "" beyond the end.
At(t, i) == IF i \in 1..Len(t) THEN t[i] ELSE ""

\* The length of the longest run of characters of S that starts at i
\* (what a greedy \d+ or \s* consumes there).
RunLength(t, i, S) ==
    Cardinality({ n \in 1..(Len(t) - i + 1) : \A k \in 0..(n - 1) : t[i + k] \in S })

\* (?:,\d+)* from position p: the position after the last group.
RECURSIVE GroupsEnd(_, _)
GroupsEnd(t, p) ==
    IF At(t, p) = "," /\ RunLength(t, p + 1, DigitSet) > 0
    THEN GroupsEnd(t, p + 1 + RunLength(t, p + 1, DigitSet))
    ELSE p

\* \d+(?:,\d+)*(?:\.\d+)? from the digit at d: the position after the match.
PriceTokenEnd(t, d) ==
    LET b == GroupsEnd(t, d + RunLength(t, d, DigitSet))
    IN  IF At(t, b) = "." /\ RunLength(t, b + 1, DigitSet) > 0
        THEN b + 1 + RunLength(t, b + 1, DigitSet)
        ELSE b

\* The capture group of the price expression when it matches at i.
PriceCaptureAt(t, i) ==
    IF At(t, i) # Rupee THEN None
    ELSE LET d == i + 1 + RunLength(t, i + 1, {" "})
         IN  IF RunLength(t, d, DigitSet) = 0 THEN None
             ELSE Some(SubSeq(t, d, PriceTokenEnd(t, d) - 1))

\* text.match(price expression): the leftmost match's capture group.
PriceCapture(t) ==
    LET hit == FirstTrue([i \in 1..Len(t) |-> PriceCaptureAt(t, i) # None])
    IN  IF hit = None THEN None ELSE PriceCaptureAt(t, hit[1])

\* Mutant: replace(',', '') removes the first comma only.
RemoveCommas_First(s) ==
    LET hit == FirstTrue([i \in 1..Len(s) |-> s[i] = ","])
    IN  IF hit = None THEN s
        ELSE SubSeq(s, 1, hit[1] - 1) \o SubSeq(s, hit[1] + 1, Len(s))

\* .replace(/,/g, '')
RemoveCommas(s) == SelectSeq(s, LAMBDA c : c # ",")

RECURSIVE DigitsValue(_)
DigitsValue(ds) ==
    IF ds = << >> THEN 0
    ELSE 10 * DigitsValue(SubSeq(ds, 1, Len(ds) - 1)) + DigitValue(ds[Len(ds)])

\* parseFloat of a text that starts with a digit: the leading digits and, when
\* a point and digits follow, the fraction; it stops at any other character.
ParseFloat(s) ==
    LET n == RunLength(s, 1, DigitSet)
        f == IF At(s, n + 1) = "." THEN RunLength(s, n + 2, DigitSet) ELSE 0
    IN  DigitsValue(SubSeq(s, 1, n)) * HundredthsPerUnit
        + (DigitsValue(SubSeq(s, n + 2, n + 1 + f)) * HundredthsPerUnit) \div Pow10(f)

\* match ? parseFloat(match[1].replace(/,/g, '')) : no price
ParsePrice(text) ==
    LET cap == PriceCapture(text)
    IN  IF cap = None THEN None ELSE Some(ParseFloat(RemoveCommas(cap[1])))

\* The capture of /(\d+\.\d+)/ when it matches at i.
RatingCaptureAt(t, i) ==
    LET n == RunLength(t, i, DigitSet)
        f == RunLength(t, i + n + 1, DigitSet)
    IN  IF n > 0 /\ At(t, i + n) = "." /\ f > 0
        THEN Some(SubSeq(t, i, i + n + f))
        ELSE None

\* ratingEl.textContent.match(/(\d+\.\d+)/), then parseFloat(match[1])
ParseRating(text) ==
    LET hit == FirstTrue([i \in 1..Len(text) |-> RatingCaptureAt(text, i) # None])
    IN  IF hit = None THEN None
        ELSE Some(ParseFloat(RatingCaptureAt(text, hit[1])[1]))

\* ---- the texts a page shows
RECURSIVE ToDigits(_)
ToDigits(n) ==
    IF n < 10 THEN << Digits[n + 1] >>
    ELSE ToDigits(n \div 10) \o << Digits[(n % 10) + 1] >>

\* The digits with a separator before every group of three.
RECURSIVE Grouped(_)
Grouped(ds) ==
    IF Len(ds) <= 3 THEN ds
    ELSE Grouped(SubSeq(ds, 1, Len(ds) - 3)) \o <<",">> \o SubSeq(ds, Len(ds) - 2, Len(ds))

\* The spans of a card: a priced span shows the currency sign, spaces, the
\* amount with separators and fraction, alone, followed by a label, or after
\* a quantity; another span shows no currency token.
PricedSpans == [priced : {TRUE}, units : {7, 1234, 1234567},
                frac : {<< >>, <<"5", "0">>}, spaces : {0, 1},
                wrap : {"plain", "label", "quantity"}]
OtherSpans == [priced : {FALSE}, units : {0}, frac : {<< >>}, spaces : {0},
               wrap : {"empty", "weight", "sign"}]
SpanDescs == PricedSpans \cup OtherSpans

SpanText(d) ==
    IF d.priced
    THEN (IF d.wrap = "quantity" THEN <<"2", " ", "x", " ">> ELSE << >>)
         \o <<Rupee>> \o [k \in 1..d.spaces |-> " "]
         \o Grouped(ToDigits(d.units))
         \o (IF d.frac = << >> THEN << >> ELSE <<".">> \o d.frac)
         \o (IF d.wrap = "label" THEN <<" ", "M", "R", "P">> ELSE << >>)
    ELSE IF d.wrap = "empty" THEN << >>
    ELSE IF d.wrap = "weight" THEN <<"5", "0", "0", " ", "g">>
    ELSE <<Rupee, ".", "5">>

\* The amount a priced span shows, in hundredths.
ShownAmount(d) ==
    d.units * HundredthsPerUnit
    + (DigitsValue(d.frac) * HundredthsPerUnit) \div Pow10(Len(d.frac))

RatingTexts == { << >>, <<"4">>, <<"4", ".", "5">>, <<"N", "e", "w">>,
                 <<"1", "2", ".", "5">>,
                 <<"4", ".", "5", " ", "(", "1", ".", "2", "k", ")">> }

\* The price loop of the extraction over the spans of one card.
ParsePrices ==
    /\ exPc = "ready"
    /\ exInput.kind = "prices"
    /\ exOut' = CurrentPrice([spans |-> [i \in 1..Len(exInput.v) |->
                    [token |-> ParsePrice(SpanText(exInput.v[i])), flagged |-> FALSE]]])
    /\ exPc' = "done"
    /\ UNCHANGED <<pc, handlerVars, configVars, domLinks, scrollVars, exInput, auxVars>>

\* The rating of the extraction from the text of the rating element.
ParseRatingText ==
    /\ exPc = "ready"
    /\ exInput.kind = "rating"
    /\ exOut' = ParseRating(exInput.text)
    /\ exPc' = "done"
    /\ UNCHANGED <<pc, handlerVars, configVars, domLinks, scrollVars, exInput, auxVars>>

InitParse ==
    /\ pc = "idle"
    /\ HandlerIdle
    /\ cfgScrollCount = 0
    /\ maxProductsPerSearch = DefaultMaxProducts
    /\ domLinks = 0
    /\ ScrollIdle
    /\ exPc = "ready"
    /\ exInput \in { [kind |-> "prices", v |-> t, text |-> << >>] :
                         t \in SeqsUpTo(SpanDescs, MaxSpans) }
                   \cup { [kind |-> "rating", v |-> << >>, text |-> t] : t \in RatingTexts }
    /\ exOut = << >>
    /\ AuxIdle

NextParse == ParsePrices \/ ParseRatingText

SpecParse == InitParse /\ [][NextParse]_vars

\* C17: the current price of a card is the amount of the first span, in
\* document order, that shows a currency token, separators removed; absent
\* when no span shows one.
C17_PriceParsing ==
    (exPc = "done" /\ exInput.kind = "prices") =>
        LET hit == FirstTrue([i \in 1..Len(exInput.v) |-> exInput.v[i].priced])
        IN  exOut = IF hit = None THEN None
                    ELSE Some(ShownAmount(exInput.v[hit[1]]))

\* C17 witness: a span without a token, then "Rs1,234.50 MRP": 1234.50.
C17_Witness ==
    /\ exPc = "done"
    /\ exInput.kind = "prices"
    /\ Len(exInput.v) = 2
    /\ ~exInput.v[1].priced
    /\ SpanText(exInput.v[2]) =
          <<Rupee, "1", ",", "2", "3", "4", ".", "5", "0", " ", "M", "R", "P">>
    /\ exOut = Some(123450)

\* C18: the rating of a record is absent or within 0.0..5.0, whatever the
\* text of the rating element.
C18_RatingRange ==
    (exPc = "done" /\ exInput.kind = "rating" /\ exOut # None) =>
        (exOut[1] >= 0 /\ exOut[1] <= 5 * HundredthsPerUnit)

\* ------------------------------------------------------------ waitForSearchResults
\* for (let attempt = 1; attempt <= 3; attempt++)
WAIT_ATTEMPTS == 3

\* Mutant: the loop test off by one (attempt < 3).
WaitLoopContinues_Exclusive(attempt) == attempt < WAIT_ATTEMPTS

WaitLoopContinues(attempt) == attempt <= WAIT_ATTEMPTS

\* An attempt has detected results: the selector appeared and matched
\* elements, or it did not appear and the page text shows a price or ADD.
AttemptSucceeded(entry) ==
    \/ entry.selector = "found" /\ entry.count > 0
    \/ entry.selector = "failed" /\ entry.text = "priced"

\* The loop test; return false after the loop.
WaitLoopHead ==
    /\ pc = "w_loop"
    /\ IF WaitLoopContinues(waitAttempt)
       THEN pc' = "w_wait" /\ UNCHANGED waitResult
       ELSE pc' = "w_done" /\ waitResult' = "false"
    /\ UNCHANGED <<handlerVars, configVars, domLinks, scrollVars, extractVars,
                   pincodeVars, pageCrashed, waitAttempt, waitLog, crawlerVars,
                   concurrentVars, events>>

\* try { await page.waitForSelector(productLink); count = await ...count();
\*       if (count > 0) return true; }
\* a rejected call leads to the catch; a count of 0 to the next attempt.
WaitForSelector ==
    /\ pc = "w_wait"
    /\ \E ok \in CallOutcomes, count \in 0..MaxLinks :
         IF ok
         THEN /\ domLinks' = count
              /\ waitLog' = Append(waitLog,
                                   [selector |-> "found", count |-> count, text |-> "unread"])
              /\ IF count > 0
                 THEN pc' = "w_done" /\ waitResult' = "true" /\ UNCHANGED waitAttempt
                 ELSE pc' = "w_loop" /\ waitAttempt' = waitAttempt + 1
                      /\ UNCHANGED waitResult
         ELSE /\ pc' = "w_fallback"
              /\ UNCHANGED <<domLinks, waitVars>>
    /\ UNCHANGED <<handlerVars, configVars, scrollVars, extractVars, pincodeVars,
                   pageCrashed, crawlerVars, concurrentVars, events>>

\* catch (e) { try { bodyText = ...; if (a price sign or ADD) return true; }
\*             catch (err) { } delay; }
WaitFallback ==
    /\ pc = "w_fallback"
    /\ \E text \in {"priced", "plain", "error"} :
         /\ pageCrashed => text = "error"
         /\ waitLog' = Append(waitLog, [selector |-> "failed", count |-> 0, text |-> text])
         /\ IF text = "priced"
            THEN pc' = "w_done" /\ waitResult' = "true" /\ UNCHANGED waitAttempt
            ELSE pc' = "w_loop" /\ waitAttempt' = waitAttempt + 1 /\ UNCHANGED waitResult
    /\ UNCHANGED <<handlerVars, configVars, domLinks, scrollVars, extractVars,
                   pincodeVars, pageCrashed, crawlerVars, concurrentVars, events>>

\* A call of waitForSearchResults on a page.
InitWait ==
    /\ pc = "w_loop"
    /\ HandlerIdle
    /\ cfgScrollCount = 0
    /\ maxProductsPerSearch = DefaultMaxProducts
    /\ domLinks = 0
    /\ ScrollIdle
    /\ ExtractIdle
    /\ PincodeIdle
    /\ pageCrashed \in BOOLEAN
    /\ waitAttempt = 1
    /\ waitLog = << >>
    /\ waitResult = "none"
    /\ CrawlerIdle
    /\ ConcurrentIdle
    /\ events = << >>

NextWait ==
    \/ WaitLoopHead
    \/ WaitForSelector
    \/ WaitFallback

SpecWait == InitWait /\ [][NextWait]_vars

\* C20: waitForSearchResults makes at most 3 attempts and never throws; it
\* returns true at the first attempt that detects results and false only
\* after 3 attempts that detected none.
C20_WaitBounded ==
    /\ Len(waitLog) <= WAIT_ATTEMPTS
    /\ outcome = "running"
    /\ (pc = "w_done") = (waitResult # "none")
    /\ \A k \in 1..(Len(waitLog) - 1) : ~AttemptSucceeded(waitLog[k])
    /\ waitResult = "true" =>
          /\ waitLog # << >>
          /\ AttemptSucceeded(waitLog[Len(waitLog)])
    /\ waitResult = "false" =>
          /\ Len(waitLog) = WAIT_ATTEMPTS
          /\ \A k \in 1..Len(waitLog) : ~AttemptSucceeded(waitLog[k])
    /\ waitResult = "none" =>
          \A k \in 1..Len(waitLog) : ~AttemptSucceeded(waitLog[k])

\* C20 witness: the selector matched nothing, then the wait failed without a
\* price in the page text, then the wait failed and the page text showed a
\* price: true at the third attempt.
C20_Witness ==
    /\ pc = "w_done"
    /\ waitResult = "true"
    /\ Len(waitLog) = 3
    /\ waitLog[1].selector = "found"
    /\ waitLog[2].text = "plain"
    /\ waitLog[3].text = "priced"

\* ------------------------------------------------------------ failedRequestHandler (second script)
\* Requests of a run that end up failed; request i has URL i.
NumFailed == 3

\* The framework gives up on request i and calls failedRequestHandler.
RequestFails(i) ==
    /\ failing[i].pc = "idle"
    /\ failing' = [failing EXCEPT ![i].pc = "read"]
    /\ UNCHANGED <<pc, handlerVars, configVars, domLinks, scrollVars, extractVars,
                   pincodeVars, pageCrashed, waitVars, crawlerVars, inv, dataset,
                   failedUrls, events>>

\* const failedUrls = await Actor.getValue('FAILED_URLS') || [];
\* failedUrls.push({ url: request.url, ... }): the invocation's own copy of
\* the stored list, with its entry appended.
FailedRead(i) ==
    /\ failing[i].pc = "read"
    /\ failing' = [failing EXCEPT ![i].pc = "write",
                                  ![i].failedUrls = Append(failedUrls, i)]
    /\ UNCHANGED <<pc, handlerVars, configVars, domLinks, scrollVars, extractVars,
                   pincodeVars, pageCrashed, waitVars, crawlerVars, inv, dataset,
                   failedUrls, events>>

\* await Actor.setValue('FAILED_URLS', failedUrls): the stored list is
\* replaced by the invocation's copy.
FailedWrite(i) ==
    /\ failing[i].pc = "write"
    /\ failedUrls' = failing[i].failedUrls
    /\ failing' = [failing EXCEPT ![i].pc = "done"]
    /\ UNCHANGED <<pc, handlerVars, configVars, domLinks, scrollVars, extractVars,
                   pincodeVars, pageCrashed, waitVars, crawlerVars, inv, dataset,
                   events>>

\* A run of the second script in which up to NumFailed requests fail, at any
\* time; the key-value store holds no FAILED_URLS at the start.
InitFailed ==
    /\ pc = "failed"
    /\ HandlerIdle
    /\ cfgScrollCount = 0
    /\ maxProductsPerSearch = DefaultMaxProducts
    /\ domLinks = 0
    /\ ScrollIdle
    /\ ExtractIdle
    /\ PincodeIdle
    /\ pageCrashed = FALSE
    /\ WaitIdle
    /\ CrawlerIdle
    /\ inv = << >>
    /\ dataset = << >>
    /\ failedUrls = << >>
    /\ failing = [i \in 1..NumFailed |-> [pc |-> "idle", failedUrls |-> << >>]]
    /\ events = << >>

NextFailed ==
    \/ \E i \in 1..NumFailed : RequestFails(i)
    \/ \E i \in 1..NumFailed : FailedRead(i)
    \/ \E i \in 1..NumFailed : FailedWrite(i)

SpecFailed == InitFailed /\ [][NextFailed]_vars

\* The number of entries of the stored list for request i.
EntriesFor(i) == Cardinality({ k \in 1..Len(failedUrls) : failedUrls[k] = i })

\* C21: after any interleaving of failedRequestHandler invocations the
\* FAILED_URLS list holds exactly one entry for every request whose
\* invocation has finished, and none for any other.
C21_NoLostEntry ==
    \A i \in 1..NumFailed :
        EntriesFor(i) = IF failing[i].pc = "done" THEN 1 ELSE 0

\* C22: an invocation that ends by throwing to the framework has written no
\* record to the sink (so a retry of the URL writes no record a second time).
C22_NoPartialSave ==
    outcome = "thrown" => sink = << >>

\* C12: the steps of setPincode run in the order of the flow; a failed step
\* is the last one run and gives false; true is returned only after every
\* step succeeded; setPincode never throws, and after false the handler goes
\* on with the scrape of the URL.
C12_PincodeShortCircuit ==
    /\ Len(pinSteps) <= Len(PincodeOrder)
    /\ \A k \in 1..Len(pinSteps) : pinSteps[k].step = PincodeOrder[k]
    /\ \A k \in 1..(Len(pinSteps) - 1) : pinSteps[k].ok
    /\ (pc = "p_false" \/ locationSet = "false") =>
          /\ pinSteps # << >>
          /\ ~pinSteps[Len(pinSteps)].ok
    /\ (pc = "p_true" \/ locationSet = "true") =>
          /\ Len(pinSteps) = Len(PincodeOrder)
          /\ \A k \in 1..Len(pinSteps) : pinSteps[k].ok
    /\ (pinSteps # << >> /\ ~pinSteps[Len(pinSteps)].ok) =>
          pc \in {"p_false", "h_located", "h_loadstate", "h_loop", "h_done"}
    /\ pc \in {PinPc(PincodeOrder[k]) : k \in 1..Len(PincodeOrder)}
              \cup {"p_true", "p_false", "h_located", "h_loadstate"} =>
          outcome = "running"
    /\ ~isFirst => pinSteps = << >> /\ locationSet = "unset"

\* C12 witness: the suggestions never appeared, setPincode returned false
\* after five steps and the handler has reached its retry loop.
C12_Witness ==
    /\ pc = "h_loop"
    /\ locationSet = "false"
    /\ Len(pinSteps) = 5
    /\ pinSteps[5].step = "suggest"
    /\ outcome = "running"

====
